---- MODULE Spec2Model ----
(***************************************************************************)
(* The repository persistence service (backend/store/repository.go) and    *)
(* the Inbox view's read/unread lists (the Vue component that follows the  *)
(* task template in frontend/src/plugins/task/DatabaseRequestTemplate.ts). *)
(*                                                                         *)
(* The repo table is a set of rows keyed by column name; an api.Repository *)
(* is a record keyed by the Go field names, produced by Scan from the      *)
(* RETURNING / SELECT column list position by position.  The created_ts    *)
(* and updated_ts columns are written by no statement of the source (the   *)
(* table's defaults set them) and are left out of the rows.                *)
(***************************************************************************)
EXTENDS Integers, Sequences, FiniteSets, TLC

\* ------------------------------------------------------------------ bounds

\* Rows the table ever holds: ids 1..MaxId are handed out by the store.
MaxId == 2
\* Inbox items of the current user.
MaxItem == 2
\* Runs of prepareInboxList and clicks on "Mark all as read", together.
MaxEvents == 4

Ids == 1..MaxId
\* Principal ids of the callers (creator / updater).
Users == {1, 2}
\* Values of base_directory and of branch_filter.
Dirs == {"/", "/sql"}
Filters == {"main", "release"}
\* The callers of the service: caller 1 alone under Spec, both under SpecConc.
Procs == {1, 2}

\* A Go pointer field: <<>> is nil, <<v>> points to v.
Nil == <<>>
Ptr(v) == <<v>>
Deref(p) == p[1]

\* ------------------------------------------------------------- the inputs

\* api.RepositoryCreate values.
CreateInputs ==
    { [CreatorId |-> u, VCSId |-> 10, ProjectId |-> 5, Name |-> "repo-a",
       FullPath |-> "org/repo-a", WebURL |-> "https://git/org/repo-a",
       BaseDirectory |-> d, BranchFilter |-> b,
       ExternalId |-> "123", WebhookId |-> "wh1"] :
      u \in Users, d \in Dirs, b \in Filters }

\* api.RepositoryFind values: ID is a pointer.
FindInputs == { [ID |-> Nil] } \cup { [ID |-> Ptr(i)] : i \in Ids }

\* api.RepositoryPatch values: BaseDirectory and BranchFilter are pointers.
PatchInputs ==
    { [ID |-> i, UpdaterId |-> u, BaseDirectory |-> d, BranchFilter |-> b] :
      i \in Ids, u \in Users,
      d \in {Nil} \cup {Ptr(x) : x \in Dirs},
      b \in {Nil} \cup {Ptr(x) : x \in Filters} }

\* api.RepositoryDelete values.
DeleteInputs == { [ID |-> i] : i \in Ids }

\* ------------------------------------------------------------ the errors

\* bytebase.ENOTFOUND, the code of the errors the service builds itself.
ENOTFOUND == "ENOTFOUND"
\* The kind FormatError gives an error of the driver.
EINTERNAL == "EINTERNAL"
NoError == "nil"
\* An error of the driver: a failed begin, statement, decode or commit.
DriverError == "driver error"

\* FormatError maps an error of the driver to an error kind of the service
\* and returns an error of the service (a bytebase.Error) as it is.
FormatError(err) == IF err = DriverError THEN EINTERNAL ELSE err

\* ----------------------------------------------------------- the statements

\* The column list of RETURNING and of SELECT, and Scan's targets in order.
ReturningCols ==
    << "id", "creator_id", "updater_id", "vcs_id", "project_id", "name",
       "full_path", "web_url", "base_directory", "branch_filter",
       "external_id", "webhook_id" >>

\* rows.Scan(&repository.ID, &repository.CreatorId, ...): the i-th value of
\* the returned tuple goes to the i-th target.
Scan(t) ==
    [ID |-> t[1], CreatorId |-> t[2], UpdaterId |-> t[3], VCSId |-> t[4],
     ProjectId |-> t[5], Name |-> t[6], FullPath |-> t[7], WebURL |-> t[8],
     BaseDirectory |-> t[9], BranchFilter |-> t[10], ExternalId |-> t[11],
     WebhookId |-> t[12]]

\* The tuple a statement returns for a row.
Returning(row) == [i \in 1..Len(ReturningCols) |-> row[ReturningCols[i]]]

\* INSERT INTO repo (...) VALUES (?, ...): the columns and the arguments bound
\* to them, position by position.
InsertCols ==
    << "creator_id", "updater_id", "vcs_id", "project_id", "name", "full_path",
       "web_url", "base_directory", "branch_filter", "external_id",
       "webhook_id" >>

\* A slip in the argument order: base_directory and branch_filter exchanged.
InsertArgs_swapped(create) ==
    << create.CreatorId, create.CreatorId, create.VCSId, create.ProjectId,
       create.Name, create.FullPath, create.WebURL, create.BranchFilter,
       create.BaseDirectory, create.ExternalId, create.WebhookId >>

InsertArgs(create) ==
    << create.CreatorId, create.CreatorId, create.VCSId, create.ProjectId,
       create.Name, create.FullPath, create.WebURL, create.BaseDirectory,
       create.BranchFilter, create.ExternalId, create.WebhookId >>

\* The position of column c in a column list.
ColIndex(cols, c) == CHOOSE i \in 1..Len(cols) : cols[i] = c

\* The row an INSERT adds: the store assigns the id.
InsertRow(id, cols, args) ==
    [c \in {"id"} \cup {cols[i] : i \in 1..Len(cols)} |->
        IF c = "id" THEN id ELSE args[ColIndex(cols, c)]]

\* The rows of a table in primary-key order.
RECURSIVE RowsInOrder(_)
RowsInOrder(rows) ==
    IF rows = {} THEN << >>
    ELSE LET first == CHOOSE r \in rows : \A q \in rows : r.id <= q.id
         IN  << first >> \o RowsInOrder(rows \ {first})

\* A WHERE clause that drops the id predicate.
FindWhere_noId(find, row) == TRUE

\* findRepositoryList's WHERE clause: "1 = 1", and "id = ?" when find.ID is set.
FindWhere(find, row) ==
    /\ TRUE
    /\ (find.ID # Nil => row.id = Deref(find.ID))

\* The SELECT of findRepositoryList on a table: the matching rows, in order.
SelectRows(tbl, find) == RowsInOrder({r \in tbl : FindWhere(find, r)})

\* patchRepository's SET clause and its arguments, built side by side.
PatchSet(patch) ==
    << "updater_id" >>
    \o (IF patch.BaseDirectory # Nil THEN << "base_directory" >> ELSE << >>)
    \o (IF patch.BranchFilter # Nil THEN << "branch_filter" >> ELSE << >>)

\* The arguments appended in the other order than the SET clause's columns.
PatchArgs_swapped(patch) ==
    << patch.UpdaterId >>
    \o (IF patch.BranchFilter # Nil THEN << Deref(patch.BranchFilter) >> ELSE << >>)
    \o (IF patch.BaseDirectory # Nil THEN << Deref(patch.BaseDirectory) >> ELSE << >>)
    \o << patch.ID >>

PatchArgs(patch) ==
    << patch.UpdaterId >>
    \o (IF patch.BaseDirectory # Nil THEN << Deref(patch.BaseDirectory) >> ELSE << >>)
    \o (IF patch.BranchFilter # Nil THEN << Deref(patch.BranchFilter) >> ELSE << >>)
    \o << patch.ID >>

\* An UPDATE without its WHERE clause.
UpdateWhere_all(set, args, row) == TRUE

\* UPDATE repo SET ... WHERE id = ?: the last argument is the id.
UpdateWhere(set, args, row) == row.id = args[Len(args)]

\* A row after the SET clause: the i-th column takes the i-th argument.
UpdateRow(set, args, row) ==
    [c \in DOMAIN row |->
        IF \E i \in 1..Len(set) : set[i] = c
        THEN args[ColIndex(set, c)]
        ELSE row[c]]

\* A DELETE without its WHERE clause.
DeleteWhere_all(delete, row) == TRUE

\* DELETE FROM repo WHERE id = ?
DeleteWhere(delete, row) == row.id = delete.ID

\* ------------------------------------------------------------ the state

VARIABLES
    table,        \* the committed rows of the repo table
    nextId,       \* the id the store gives the next inserted row
    calls,        \* per caller: the call it is in, its transaction, its result
    table0,       \* the committed rows when the call (the run) started
    serverStatus, \* inbox: the status the server holds per item
    readList,     \* inbox: state.readList (item ids)
    unreadList,   \* inbox: state.unreadList (item ids)
    fetches,      \* inbox: fetchInboxListByUser dispatches in flight
    patches,      \* inbox: patchInbox dispatches in flight
    marks,        \* inbox: per markAllAsRead call, its count and its dispatches
    nFetch        \* inbox: prepareInboxList runs so far

storeVars == << table, nextId, calls, table0 >>
inboxVars == << serverStatus, readList, unreadList, fetches, patches, marks, nFetch >>
vars == << table, nextId, calls, table0,
           serverStatus, readList, unreadList, fetches, patches, marks, nFetch >>

\* ------------------------------------------------------- the transaction

\* What a transaction has written and not yet committed: rows put, ids deleted.
RowIds(rows) == {r.id : r \in rows}

\* The table as the transaction holding the writes (put, del) sees it, and as
\* it is once those writes are committed.
TxView(tbl, put, del) ==
    {r \in tbl : r.id \notin del /\ r.id \notin RowIds(put)} \cup put

\* What a statement-level function hands back: the writes it made in the
\* transaction, the value and the error it returns, and the driver failure
\* that took effect.
Out(put, del, ret, err, fault) ==
    [put |-> put, del |-> del, ret |-> ret, err |-> err, fault |-> fault]

\* createRepository: INSERT ... RETURNING, then Scan.  fault is the driver
\* failure injected: "query" (QueryContext fails), "scan" (Scan fails).
createRepository(view, id, create, fault) ==
    IF fault = "query"
    THEN Out({}, {}, << >>, FormatError(DriverError), "query")
    ELSE LET row == InsertRow(id, InsertCols, InsertArgs(create))
         IN  IF fault = "scan"
             THEN Out({row}, {}, << >>, FormatError(DriverError), "scan")
             ELSE Out({row}, {}, << Scan(Returning(row)) >>, NoError, "none")

\* findRepositoryList: SELECT ... WHERE, then Scan of every row.  fault:
\* "query", "scan" (a row fails to decode), "rows" (rows.Err() after the loop).
findRepositoryList(view, find, fault) ==
    IF fault = "query"
    THEN Out({}, {}, << >>, FormatError(DriverError), "query")
    ELSE LET matching == SelectRows(view, find)
         IN  IF fault = "scan" /\ Len(matching) > 0
             THEN Out({}, {}, << >>, FormatError(DriverError), "scan")
             ELSE IF fault = "rows"
             THEN Out({}, {}, << >>, FormatError(DriverError), "rows")
             ELSE Out({}, {},
                      [i \in 1..Len(matching) |-> Scan(Returning(matching[i]))],
                      NoError, "none")

\* patchRepository: UPDATE ... SET ... WHERE id = ? RETURNING, then Scan of
\* the first row, ENOTFOUND when row.Next() is false.  fault: "query", "next"
\* (the statement fails while stepping: row.Next() is false and row.Err() is
\* not looked at), "scan".
patchRepository(view, patch, fault) ==
    LET set == PatchSet(patch)
        args == PatchArgs(patch)
        updated == {UpdateRow(set, args, r) : r \in {q \in view : UpdateWhere(set, args, q)}}
    IN  IF fault = "query"
        THEN Out({}, {}, << >>, FormatError(DriverError), "query")
        ELSE IF fault = "next"
        THEN Out({}, {}, << >>, ENOTFOUND, "next")
        ELSE IF updated = {}
        THEN Out({}, {}, << >>, ENOTFOUND, "none")
        ELSE IF fault = "scan"
        THEN Out(updated, {}, << >>, FormatError(DriverError), "scan")
        ELSE Out(updated, {}, << Scan(Returning(RowsInOrder(updated)[1])) >>,
                 NoError, "none")

\* deleteRepository without the look at RowsAffected.
deleteRepository_noCheck(view, delete, fault) ==
    IF fault = "query"
    THEN Out({}, {}, << >>, FormatError(DriverError), "query")
    ELSE Out({}, RowIds({r \in view : DeleteWhere(delete, r)}), << >>, NoError, "none")

\* deleteRepository: DELETE ... WHERE id = ?, ENOTFOUND when no row was
\* affected.  fault: "query" (ExecContext fails).
deleteRepository(view, delete, fault) ==
    IF fault = "query"
    THEN Out({}, {}, << >>, FormatError(DriverError), "query")
    ELSE LET affected == {r \in view : DeleteWhere(delete, r)}
             rows == Cardinality(affected)
         IN  IF rows = 0
             THEN Out({}, {}, << >>, ENOTFOUND, "none")
             ELSE Out({}, RowIds(affected), << >>, NoError, "none")

\* ------------------------------------------------------------ the callers

\* A caller that is in no call.  overlap notes that the call began while
\* another caller's transaction was open.
IdleCall ==
    [op |-> "none", arg |-> << >>, pc |-> "idle", tx |-> "none",
     put |-> {}, del |-> {}, ret |-> << >>, err |-> NoError,
     fault |-> "none", warn |-> FALSE, overlap |-> FALSE]

\* The calls a caller can make.
Requests ==
    [op : {"CreateRepository"}, arg : CreateInputs]
    \cup [op : {"FindRepositoryList", "FindRepository"}, arg : FindInputs]
    \cup [op : {"PatchRepository"}, arg : PatchInputs]
    \cup [op : {"DeleteRepository"}, arg : DeleteInputs]

\* The driver failures a handler's statement-level function can meet.
Faults(op) ==
    CASE op = "CreateRepository" -> {"none", "query", "scan"}
      [] op = "FindRepositoryList" -> {"none", "query", "scan", "rows"}
      [] op = "FindRepository" -> {"none", "query", "scan", "rows"}
      [] op = "PatchRepository" -> {"none", "query", "next", "scan"}
      [] op = "DeleteRepository" -> {"none", "query"}
      [] OTHER -> {"none"}

\* s.db.BeginTx, the first statement of every handler: on failure the handler
\* returns FormatError(err) and no transaction exists; on success the
\* transaction is open and tx.Rollback() is deferred.
BeginTx(req, ok) ==
    IF ok
    THEN [IdleCall EXCEPT !.op = req.op, !.arg = req.arg,
                          !.pc = "begun", !.tx = "active"]
    ELSE [IdleCall EXCEPT !.op = req.op, !.arg = req.arg, !.pc = "done",
                          !.err = FormatError(DriverError), !.fault = "begin"]

\* The handler returns: the deferred tx.Rollback() discards what the
\* transaction wrote, unless it was committed.
Return(call, ret, err, fault, warn) ==
    [call EXCEPT !.pc = "done",
                 !.tx = IF call.tx = "committed" THEN "committed" ELSE "rolledback",
                 !.put = {}, !.del = {},
                 !.ret = ret, !.err = err, !.fault = fault, !.warn = warn]

\* The statement-level function succeeded in a handler that commits: its
\* writes and its value wait for tx.Commit().
Executed(call, out) ==
    [call EXCEPT !.pc = "executed", !.put = out.put, !.del = out.del,
                 !.ret = out.ret]

\* CreateRepository after BeginTx: createRepository, and the return of its
\* error.
CreateRepositoryStep(call, tbl, id, fault) ==
    LET out == createRepository(TxView(tbl, call.put, call.del), id, call.arg, fault)
    IN  IF out.err # NoError
        THEN Return(call, << >>, out.err, out.fault, FALSE)
        ELSE Executed(call, out)

\* FindRepositoryList after BeginTx: findRepositoryList; an empty list with
\* the error, or the list.
FindRepositoryListStep(call, tbl, fault) ==
    LET out == findRepositoryList(TxView(tbl, call.put, call.del), call.arg, fault)
    IN  IF out.err # NoError
        THEN Return(call, << >>, out.err, out.fault, FALSE)
        ELSE Return(call, out.ret, NoError, out.fault, FALSE)

\* FindRepository failing on more than one row instead of warning.
FindRepositoryStep_strict(call, tbl, fault) ==
    LET out == findRepositoryList(TxView(tbl, call.put, call.del), call.arg, fault)
        list == out.ret
    IN  IF out.err # NoError
        THEN Return(call, << >>, out.err, out.fault, FALSE)
        ELSE IF Len(list) = 0
        THEN Return(call, << >>, ENOTFOUND, out.fault, FALSE)
        ELSE IF Len(list) > 1
        THEN Return(call, << >>, EINTERNAL, out.fault, TRUE)
        ELSE Return(call, << list[1] >>, NoError, out.fault, FALSE)

\* FindRepository after BeginTx: findRepositoryList; its error, ENOTFOUND for
\* an empty list, a warning for more than one row, and the first row.
FindRepositoryStep(call, tbl, fault) ==
    LET out == findRepositoryList(TxView(tbl, call.put, call.del), call.arg, fault)
        list == out.ret
    IN  IF out.err # NoError
        THEN Return(call, << >>, out.err, out.fault, FALSE)
        ELSE IF Len(list) = 0
        THEN Return(call, << >>, ENOTFOUND, out.fault, FALSE)
        ELSE Return(call, << list[1] >>, NoError, out.fault, Len(list) > 1)

\* PatchRepository going on to tx.Commit() whatever patchRepository returned.
PatchRepositoryStep_noCheck(call, tbl, fault) ==
    Executed(call, patchRepository(TxView(tbl, call.put, call.del), call.arg, fault))

\* PatchRepository after BeginTx: patchRepository, and the return of
\* FormatError of its error.
PatchRepositoryStep(call, tbl, fault) ==
    LET out == patchRepository(TxView(tbl, call.put, call.del), call.arg, fault)
    IN  IF out.err # NoError
        THEN Return(call, << >>, FormatError(out.err), out.fault, FALSE)
        ELSE Executed(call, out)

\* DeleteRepository after BeginTx: deleteRepository, and the return of
\* FormatError of its error.
DeleteRepositoryStep(call, tbl, fault) ==
    LET out == deleteRepository(TxView(tbl, call.put, call.del), call.arg, fault)
    IN  IF out.err # NoError
        THEN Return(call, << >>, FormatError(out.err), out.fault, FALSE)
        ELSE Executed(call, out)

\* tx.Commit() in CreateRepository, PatchRepository and DeleteRepository: on
\* success the handler returns its value, on failure FormatError(err), and
\* the deferred Rollback discards the writes.
CommitStep(call, ok) ==
    IF ok
    THEN Return([call EXCEPT !.tx = "committed"], call.ret, NoError, "none", FALSE)
    ELSE Return(call, << >>, FormatError(DriverError), "commit", FALSE)

CreateRepository(p, fault) ==
    /\ calls[p].pc = "begun"
    /\ calls[p].op = "CreateRepository"
    /\ calls' = [calls EXCEPT ![p] = CreateRepositoryStep(@, table, nextId, fault)]
    /\ UNCHANGED << table, nextId, table0 >>

FindRepositoryList(p, fault) ==
    /\ calls[p].pc = "begun"
    /\ calls[p].op = "FindRepositoryList"
    /\ calls' = [calls EXCEPT ![p] = FindRepositoryListStep(@, table, fault)]
    /\ UNCHANGED << table, nextId, table0 >>

FindRepository(p, fault) ==
    /\ calls[p].pc = "begun"
    /\ calls[p].op = "FindRepository"
    /\ calls' = [calls EXCEPT ![p] = FindRepositoryStep(@, table, fault)]
    /\ UNCHANGED << table, nextId, table0 >>

PatchRepository(p, fault) ==
    /\ calls[p].pc = "begun"
    /\ calls[p].op = "PatchRepository"
    /\ calls' = [calls EXCEPT ![p] = PatchRepositoryStep(@, table, fault)]
    /\ UNCHANGED << table, nextId, table0 >>

DeleteRepository(p, fault) ==
    /\ calls[p].pc = "begun"
    /\ calls[p].op = "DeleteRepository"
    /\ calls' = [calls EXCEPT ![p] = DeleteRepositoryStep(@, table, fault)]
    /\ UNCHANGED << table, nextId, table0 >>

\* The id after the largest of a set of ids and the ids of a set of rows.
NextIdAfter(id, rows) ==
    IF \E r \in rows : r.id >= id
    THEN 1 + (CHOOSE m \in RowIds(rows) : \A q \in RowIds(rows) : q <= m)
    ELSE id

\* The commit of a handler's transaction: its writes reach the table when
\* tx.Commit() succeeds.
Commit(p, ok) ==
    /\ calls[p].pc = "executed"
    /\ table' = IF ok THEN TxView(table, calls[p].put, calls[p].del) ELSE table
    /\ nextId' = IF ok THEN NextIdAfter(nextId, calls[p].put) ELSE nextId
    /\ calls' = [calls EXCEPT ![p] = CommitStep(@, ok)]
    /\ UNCHANGED table0

\* One caller, one call after the other: the next call starts once the last
\* one has returned.
Call(p, req, ok) ==
    /\ calls[p].pc = "idle"
    /\ req.op = "CreateRepository" => nextId <= MaxId
    /\ calls' = [calls EXCEPT ![p] = BeginTx(req, ok)]
    /\ table0' = table
    /\ UNCHANGED << table, nextId >>

\* The caller has taken the handler's result and is ready for its next call.
Returned(p) ==
    /\ calls[p].pc = "done"
    /\ calls' = [calls EXCEPT ![p] = IdleCall]
    /\ table0' = table
    /\ UNCHANGED << table, nextId >>

InitStore ==
    /\ table = {}
    /\ nextId = 1
    /\ calls = [p \in Procs |-> IdleCall]
    /\ table0 = {}

\* Two callers, one call each, on different ids (a FindRepository by id, a
\* PatchRepository or a DeleteRepository), their steps interleaved.
ConcRequests == {r \in Requests :
    \/ r.op = "DeleteRepository"
    \/ r.op = "FindRepository" /\ r.arg.ID # Nil
    \/ /\ r.op = "PatchRepository"
       /\ r.arg.BaseDirectory \in {Nil, Ptr("/sql")}
       /\ r.arg.BranchFilter \in {Nil, Ptr("release")}}

\* The id a call of ConcRequests is about.
TargetId(op, arg) == IF op = "FindRepository" THEN Deref(arg.ID) ELSE arg.ID

ConcCall(p, req, ok) ==
    /\ calls[p].pc = "idle"
    /\ req \in ConcRequests
    /\ \A q \in Procs \ {p} :
          calls[q].pc # "idle" => TargetId(calls[q].op, calls[q].arg) # TargetId(req.op, req.arg)
    /\ calls' = [calls EXCEPT ![p] =
           [BeginTx(req, ok) EXCEPT !.overlap = \E q \in Procs \ {p} : calls[q].tx = "active"]]
    /\ UNCHANGED << table, nextId, table0 >>

\* The tables the two callers start from: per id no row, or a row as
\* CreateRepository leaves it.
ConcCreates == {c \in CreateInputs :
    c.CreatorId = 1 /\ c.BaseDirectory = "/" /\ c.BranchFilter = "main"}

ConcTables ==
    UNION { { {InsertRow(i, InsertCols, InsertArgs(f[i])) : i \in S} :
              f \in [S -> ConcCreates] } : S \in SUBSET Ids }

InitConc ==
    /\ table \in ConcTables
    /\ nextId = MaxId + 1
    /\ calls = [p \in Procs |-> IdleCall]
    /\ table0 = table

\* --------------------------------------------------------------- the inbox

Items == 1..MaxItem

\* The list fetchInboxListByUser resolves with: the user's items as the server
\* holds them.
InboxList(status) == [i \in Items |-> [id |-> i, status |-> status[i]]]

\* The items of a list with a status, in the list's order (the loop of
\* prepareInboxList's callback).
RECURSIVE WithStatus(_, _)
WithStatus(list, st) ==
    IF list = << >> THEN << >>
    ELSE (IF Head(list).status = st THEN << Head(list).id >> ELSE << >>)
         \o WithStatus(Tail(list), st)

\* prepareInboxList (run by watchEffect at setup and when the current user
\* changes): dispatches inbox/fetchInboxListByUser unless the user is unknown.
PrepareInboxList(known) ==
    /\ nFetch + Len(marks) < MaxEvents
    /\ nFetch' = nFetch + 1
    /\ fetches' = IF known
                  THEN fetches \cup {[id |-> nFetch + 1, state |-> "sent", list |-> << >>]}
                  ELSE fetches
    /\ UNCHANGED << serverStatus, readList, unreadList, patches, marks >>

\* The server answers a fetch with the list as it is now.
FetchServed(f) ==
    /\ f \in fetches
    /\ f.state = "sent"
    /\ fetches' = (fetches \ {f})
                  \cup {[f EXCEPT !.state = "served", !.list = InboxList(serverStatus)]}
    /\ UNCHANGED << serverStatus, readList, unreadList, patches, marks, nFetch >>

\* The fetch resolves: the callback of prepareInboxList empties both lists
\* and sorts the items by status.
FetchResolved(f) ==
    /\ f \in fetches
    /\ f.state = "served"
    /\ readList' = WithStatus(f.list, "READ")
    /\ unreadList' = WithStatus(f.list, "UNREAD")
    /\ fetches' = fetches \ {f}
    /\ UNCHANGED << serverStatus, patches, marks, nFetch >>

\* The fetch fails: no callback runs.
FetchRejected(f) ==
    /\ f \in fetches
    /\ f.state = "sent"
    /\ fetches' = fetches \ {f}
    /\ UNCHANGED << serverStatus, readList, unreadList, patches, marks, nFetch >>

\* markAllAsRead: count is the number of unread items, one inbox/patchInbox
\* is dispatched per item, and the unread list is emptied.
MarkAllAsRead ==
    /\ nFetch + Len(marks) < MaxEvents
    /\ LET count == Len(unreadList)
           k == Len(marks) + 1
       IN  /\ patches' = patches \cup
                   {[mark |-> k, item |-> unreadList[i], state |-> "sent"] :
                      i \in 1..Len(unreadList)}
           /\ marks' = Append(marks,
                   [n |-> count, count |-> count, resolved |-> 0, summary |-> 0])
    /\ unreadList' = << >>
    /\ UNCHANGED << serverStatus, readList, fetches, nFetch >>

\* The server applies a patch: the item is READ.
PatchServed(pt) ==
    /\ pt \in patches
    /\ pt.state = "sent"
    /\ serverStatus' = [serverStatus EXCEPT ![pt.item] = "READ"]
    /\ patches' = (patches \ {pt}) \cup {[pt EXCEPT !.state = "served"]}
    /\ UNCHANGED << readList, unreadList, fetches, marks, nFetch >>

\* The callback testing count before it is decremented.
PatchThen_stale(m) ==
    [m EXCEPT !.count = @ - 1,
              !.resolved = @ + 1,
              !.summary = IF m.count = 0 THEN @ + 1 ELSE @]

\* The callback of a patch, on the call's record: count--, and
\* inbox/fetchInboxSummaryByUser is dispatched when count is 0.
PatchThen(m) ==
    [m EXCEPT !.count = @ - 1,
              !.resolved = @ + 1,
              !.summary = IF m.count - 1 = 0 THEN @ + 1 ELSE @]

\* The patch resolves: its callback runs and pushes the item on the read list.
PatchResolved(pt) ==
    /\ pt \in patches
    /\ pt.state = "served"
    /\ marks' = [marks EXCEPT ![pt.mark] = PatchThen(@)]
    /\ readList' = Append(readList, pt.item)
    /\ patches' = patches \ {pt}
    /\ UNCHANGED << serverStatus, unreadList, fetches, nFetch >>

\* The patch fails: no callback runs.
PatchRejected(pt) ==
    /\ pt \in patches
    /\ pt.state = "sent"
    /\ patches' = patches \ {pt}
    /\ UNCHANGED << serverStatus, readList, unreadList, fetches, marks, nFetch >>

\* The view before setup: both lists empty, nothing dispatched.
InboxUnmounted ==
    /\ readList = << >>
    /\ unreadList = << >>
    /\ fetches = {}
    /\ patches = {}
    /\ marks = << >>
    /\ nFetch = 0

InitInbox ==
    /\ serverStatus \in [Items -> {"READ", "UNREAD"}]
    /\ InboxUnmounted

\* ------------------------------------------------------ the specifications

\* The service with one caller.
Init ==
    /\ InitStore
    /\ serverStatus = [i \in Items |-> "UNREAD"]
    /\ InboxUnmounted

Next ==
    \/ \E req \in Requests, ok \in BOOLEAN : Call(1, req, ok) /\ UNCHANGED inboxVars
    \/ \E f \in Faults("CreateRepository") : CreateRepository(1, f) /\ UNCHANGED inboxVars
    \/ \E f \in Faults("FindRepositoryList") : FindRepositoryList(1, f) /\ UNCHANGED inboxVars
    \/ \E f \in Faults("FindRepository") : FindRepository(1, f) /\ UNCHANGED inboxVars
    \/ \E f \in Faults("PatchRepository") : PatchRepository(1, f) /\ UNCHANGED inboxVars
    \/ \E f \in Faults("DeleteRepository") : DeleteRepository(1, f) /\ UNCHANGED inboxVars
    \/ \E ok \in BOOLEAN : Commit(1, ok) /\ UNCHANGED inboxVars
    \/ Returned(1) /\ UNCHANGED inboxVars

Spec == Init /\ [][Next]_vars

\* The service with two callers on different ids.
InitC ==
    /\ InitConc
    /\ serverStatus = [i \in Items |-> "UNREAD"]
    /\ InboxUnmounted

NextConc ==
    \E p \in Procs :
        \/ \E req \in ConcRequests, ok \in BOOLEAN : ConcCall(p, req, ok) /\ UNCHANGED inboxVars
        \/ \E f \in Faults("FindRepository") : FindRepository(p, f) /\ UNCHANGED inboxVars
        \/ \E f \in Faults("PatchRepository") : PatchRepository(p, f) /\ UNCHANGED inboxVars
        \/ \E f \in Faults("DeleteRepository") : DeleteRepository(p, f) /\ UNCHANGED inboxVars
        \/ \E ok \in BOOLEAN : Commit(p, ok) /\ UNCHANGED inboxVars

SpecConc == InitC /\ [][NextConc]_vars

\* The Inbox view.
InitI ==
    /\ InitStore
    /\ InitInbox

NextInbox ==
    \/ \E known \in BOOLEAN : PrepareInboxList(known) /\ UNCHANGED storeVars
    \/ \E f \in fetches : FetchServed(f) /\ UNCHANGED storeVars
    \/ \E f \in fetches : FetchResolved(f) /\ UNCHANGED storeVars
    \/ \E f \in fetches : FetchRejected(f) /\ UNCHANGED storeVars
    \/ MarkAllAsRead /\ UNCHANGED storeVars
    \/ \E pt \in patches : PatchServed(pt) /\ UNCHANGED storeVars
    \/ \E pt \in patches : PatchResolved(pt) /\ UNCHANGED storeVars
    \/ \E pt \in patches : PatchRejected(pt) /\ UNCHANGED storeVars

SpecInbox == InitI /\ [][NextInbox]_vars

\* ---------------------------------------------------- the claims' vocabulary

\* Entity e holds the column values of row r.
SameAs(e, r) ==
    /\ e.ID = r.id
    /\ e.CreatorId = r.creator_id
    /\ e.UpdaterId = r.updater_id
    /\ e.VCSId = r.vcs_id
    /\ e.ProjectId = r.project_id
    /\ e.Name = r.name
    /\ e.FullPath = r.full_path
    /\ e.WebURL = r.web_url
    /\ e.BaseDirectory = r.base_directory
    /\ e.BranchFilter = r.branch_filter
    /\ e.ExternalId = r.external_id
    /\ e.WebhookId = r.webhook_id

\* The fields PatchRepository has no way to name.
FrameFields ==
    {"ID", "CreatorId", "VCSId", "ProjectId", "Name", "FullPath", "WebURL",
     "ExternalId", "WebhookId"}

\* What a FindRepository by id returns on a table when the driver does not fail.
FindById(tbl, id) ==
    FindRepositoryStep(BeginTx([op |-> "FindRepository", arg |-> [ID |-> Ptr(id)]], TRUE),
                       tbl, "none")

\* The rows a find predicate selects, stated on the table itself.
Selected(tbl, find) == {r \in tbl : find.ID = Nil \/ r.id = find.ID[1]}

\* The call of the single caller, once it has returned.
Finished(op) == calls[1].pc = "done" /\ calls[1].op = op

\* C1: after a successful PatchRepository, FindRepository on the patched id
\* returns an entity whose supplied optional fields are the patched values,
\* whose updater id is patch.UpdaterId, and whose other fields (the omitted
\* optional ones too) are what FindRepository returned before the patch.
C1_PatchThenFind ==
    (Finished("PatchRepository") /\ calls[1].err = NoError) =>
        LET patch == calls[1].arg
            was == FindById(table0, patch.ID)
            now == FindById(table, patch.ID)
        IN  /\ was.err = NoError
            /\ now.err = NoError
            /\ now.ret[1].UpdaterId = patch.UpdaterId
            /\ now.ret[1].BaseDirectory =
                  IF patch.BaseDirectory # Nil THEN patch.BaseDirectory[1]
                  ELSE was.ret[1].BaseDirectory
            /\ now.ret[1].BranchFilter =
                  IF patch.BranchFilter # Nil THEN patch.BranchFilter[1]
                  ELSE was.ret[1].BranchFilter
            /\ \A f \in FrameFields : now.ret[1][f] = was.ret[1][f]

\* A patch of both optional fields to new values by another user than the
\* creator, with a second row in the table, has returned.
C1_Witness ==
    /\ Finished("PatchRepository")
    /\ calls[1].err = NoError
    /\ calls[1].arg.BaseDirectory # Nil
    /\ calls[1].arg.BranchFilter # Nil
    /\ Cardinality(table) = 2
    /\ LET was == FindById(table0, calls[1].arg.ID).ret[1]
       IN  /\ was.BaseDirectory # calls[1].arg.BaseDirectory[1]
           /\ was.BranchFilter # calls[1].arg.BranchFilter[1]
           /\ was.CreatorId # calls[1].arg.UpdaterId

\* C2: PatchRepository with an id that matches no row returns an error, which
\* is ENOTFOUND unless BeginTx or the statement itself failed, and the table
\* holds the same rows after the call as before it.
C2_PatchMissing ==
    (Finished("PatchRepository") /\ calls[1].arg.ID \notin RowIds(table0)) =>
        /\ calls[1].err # NoError
        /\ calls[1].ret = << >>
        /\ calls[1].fault \notin {"begin", "query"} => calls[1].err = ENOTFOUND
        /\ table = table0

\* A patch of an id with no row, in a table that holds another row, has
\* returned ENOTFOUND.
C2_Witness ==
    /\ Finished("PatchRepository")
    /\ calls[1].arg.ID \notin RowIds(table0)
    /\ calls[1].err = ENOTFOUND
    /\ calls[1].fault = "none"
    /\ table0 # {}

\* C3: after a successful DeleteRepository(id), FindRepository with that id
\* returns ENOTFOUND, the other rows are as they were and the id is not
\* given out again; DeleteRepository of an id with no row returns an error,
\* ENOTFOUND unless BeginTx or the statement failed.
C3_DeleteThenFind ==
    Finished("DeleteRepository") =>
        LET id == calls[1].arg.ID
        IN  /\ calls[1].err = NoError =>
                  /\ id \in RowIds(table0)
                  /\ FindById(table, id).err = ENOTFOUND
                  /\ table = {r \in table0 : r.id # id}
                  /\ id < nextId
            /\ id \notin RowIds(table0) =>
                  /\ calls[1].err # NoError
                  /\ calls[1].fault = "none" => calls[1].err = ENOTFOUND
                  /\ table = table0

\* A delete of one of two rows has returned without error.
C3_Witness ==
    /\ Finished("DeleteRepository")
    /\ calls[1].err = NoError
    /\ Cardinality(table0) = 2
    /\ Cardinality(table) = 1

\* C4: FindRepository returns ENOTFOUND only when no row matches; when the
\* driver does not fail it returns ENOTFOUND for no matching row and, for one
\* or more, the first matching row without error, warning exactly when more
\* than one row matches.
C4_FindOne ==
    Finished("FindRepository") =>
        LET rows == Selected(table0, calls[1].arg)
        IN  /\ calls[1].err = ENOTFOUND => rows = {}
            /\ calls[1].warn => Cardinality(rows) > 1
            /\ calls[1].fault = "none" =>
                  IF rows = {}
                  THEN calls[1].err = ENOTFOUND /\ calls[1].ret = << >>
                  ELSE /\ calls[1].err = NoError
                       /\ Len(calls[1].ret) = 1
                       /\ \E r \in rows :
                             /\ \A q \in rows : r.id <= q.id
                             /\ SameAs(calls[1].ret[1], r)
                       /\ calls[1].warn = (Cardinality(rows) > 1)

\* A find without an id on a table of two rows has returned the first row
\* with a warning.
C4_Witness ==
    /\ Finished("FindRepository")
    /\ calls[1].arg.ID = Nil
    /\ Cardinality(table0) = 2
    /\ calls[1].err = NoError
    /\ calls[1].warn

\* What a successful CreateRepository returned and left in the table.
C5_Created ==
    (Finished("CreateRepository") /\ calls[1].err = NoError) =>
        LET create == calls[1].arg
            e == calls[1].ret[1]
        IN  /\ Len(calls[1].ret) = 1
            /\ e.VCSId = create.VCSId
            /\ e.ProjectId = create.ProjectId
            /\ e.Name = create.Name
            /\ e.FullPath = create.FullPath
            /\ e.WebURL = create.WebURL
            /\ e.BaseDirectory = create.BaseDirectory
            /\ e.BranchFilter = create.BranchFilter
            /\ e.ExternalId = create.ExternalId
            /\ e.WebhookId = create.WebhookId
            /\ e.CreatorId = create.CreatorId
            /\ e.UpdaterId = create.CreatorId
            /\ e.ID \notin RowIds(table0)
            /\ \E r \in table : SameAs(e, r) /\ table = table0 \cup {r}

\* No two rows of the table share an id.
C5_UniqueIds == \A r, q \in table : r.id = q.id => r = q

\* What a step does to the ids: only CreateRepository adds one and only
\* DeleteRepository removes one, and a row keeps its id and its creator.
C5_IdsKept ==
    /\ calls[1].op # "CreateRepository" => RowIds(table') \subseteq RowIds(table)
    /\ calls[1].op # "DeleteRepository" => RowIds(table) \subseteq RowIds(table')
    /\ \A r \in table, q \in table' : r.id = q.id => r.creator_id = q.creator_id

\* C5: a successful CreateRepository returns an entity whose domain fields
\* are its inputs, whose creator id and updater id are create.CreatorId, and
\* whose ID no other row of the table has; no later operation changes the id
\* of a row.
C5_CreateEchoesInput ==
    /\ [](C5_Created /\ C5_UniqueIds)
    /\ [][C5_IdsKept]_vars

\* A second row has been created, with values other than the first row's.
C5_Witness ==
    /\ Finished("CreateRepository")
    /\ calls[1].err = NoError
    /\ calls[1].ret[1].ID = 2
    /\ \E r \in table0 :
          /\ r.creator_id # calls[1].arg.CreatorId
          /\ r.base_directory # calls[1].arg.BaseDirectory
          /\ r.branch_filter # calls[1].arg.BranchFilter

\* C6: a handler that has returned has left its transaction committed or
\* rolled back (none was opened when BeginTx failed); tx.Commit() is reached
\* only with the row operation's result in hand; and whenever the handler
\* returns an error the table holds what it held before the call.
C6_TransactionsEnd ==
    /\ calls[1].pc = "done" =>
          /\ \/ calls[1].tx \in {"committed", "rolledback"}
             \/ calls[1].tx = "none" /\ calls[1].fault = "begin"
          /\ calls[1].put = {} /\ calls[1].del = {}
          /\ calls[1].err # NoError => table = table0 /\ calls[1].tx # "committed"
          /\ calls[1].tx = "committed" =>
                calls[1].op \in {"CreateRepository", "PatchRepository", "DeleteRepository"}
          /\ calls[1].op \in {"FindRepositoryList", "FindRepository"} =>
                table = table0
    /\ calls[1].pc = "executed" =>
          /\ calls[1].tx = "active"
          /\ calls[1].err = NoError
          /\ calls[1].op \in {"CreateRepository", "PatchRepository"} =>
                Len(calls[1].ret) = 1 /\ calls[1].put # {}
          /\ calls[1].op = "DeleteRepository" => calls[1].del # {}
    /\ calls[1].pc \in {"idle", "begun", "executed"} => table = table0

\* A patch whose row was updated has returned the error of a failed commit.
C6_Witness ==
    /\ Finished("PatchRepository")
    /\ calls[1].fault = "commit"
    /\ calls[1].err = EINTERNAL
    /\ calls[1].tx = "rolledback"
    /\ table # {}

\* C7: FindRepositoryList never returns ENOTFOUND and never changes the
\* table; when the driver does not fail it returns without error exactly the
\* rows its predicate selects (all rows without an id, the rows of that id
\* with one), the empty list when there is none.
C7_FindList ==
    Finished("FindRepositoryList") =>
        LET rows == Selected(table0, calls[1].arg)
            list == calls[1].ret
        IN  /\ calls[1].err # ENOTFOUND
            /\ table = table0
            /\ calls[1].fault = "none" =>
                  /\ calls[1].err = NoError
                  /\ Len(list) = Cardinality(rows)
                  /\ \A r \in rows : \E i \in 1..Len(list) : SameAs(list[i], r)
                  /\ rows = {} => list = << >>

\* A list by id on a table of two rows has returned the one row of that id.
C7_Witness ==
    /\ Finished("FindRepositoryList")
    /\ calls[1].arg.ID # Nil
    /\ Cardinality(table0) = 2
    /\ Len(calls[1].ret) = 1
    /\ calls[1].err = NoError

\* The step a handler takes after BeginTx.
StepOf(call, tbl, fault) ==
    CASE call.op = "FindRepository" -> FindRepositoryStep(call, tbl, fault)
      [] call.op = "PatchRepository" -> PatchRepositoryStep(call, tbl, fault)
      [] call.op = "DeleteRepository" -> DeleteRepositoryStep(call, tbl, fault)

\* The call c made alone on table tbl, the driver failing where it failed
\* for c: the call as it returns and the table it leaves.
Alone(tbl, c) ==
    LET begun == BeginTx([op |-> c.op, arg |-> c.arg], c.fault # "begin")
        stepped == IF begun.pc = "done" THEN begun
                   ELSE StepOf(begun, tbl,
                               IF c.fault = "commit" THEN "none" ELSE c.fault)
        ended == IF stepped.pc = "executed"
                 THEN CommitStep(stepped, c.fault # "commit")
                 ELSE stepped
    IN  [call |-> ended,
         table |-> IF ended.tx = "committed"
                   THEN TxView(tbl, stepped.put, stepped.del) ELSE tbl]

\* The results of two calls and the table they leave are those of calls
\* first and second made one after the other.
AsInOrder(first, second) ==
    LET a == Alone(table0, calls[first])
        b == Alone(a.table, calls[second])
    IN  /\ a.call = [calls[first] EXCEPT !.overlap = FALSE]
        /\ b.call = [calls[second] EXCEPT !.overlap = FALSE]
        /\ b.table = table

\* C8: two callers on different ids, their transactions' steps interleaved in
\* any way, get the results and leave the table that the two calls give when
\* made one after the other, in either order.
C8_DisjointIndependent ==
    (calls[1].pc = "done" /\ calls[2].pc = "done") =>
        AsInOrder(1, 2) /\ AsInOrder(2, 1)

\* A patch and a delete of two existing rows, begun while the other's
\* transaction was open, have both committed.
C8_Witness ==
    /\ calls[1].pc = "done" /\ calls[2].pc = "done"
    /\ calls[1].op = "PatchRepository" /\ calls[2].op = "DeleteRepository"
    /\ calls[1].err = NoError /\ calls[2].err = NoError
    /\ calls[2].overlap
    /\ Cardinality(table0) = 2
    /\ Cardinality(table) = 1

\* The items of a list.
ItemsOf(list) == {list[i] : i \in 1..Len(list)}

\* C9: under every interleaving of fetch completions, markAllAsRead calls and
\* patch completions, no item is in both state.readList and state.unreadList
\* and no item is in state.readList more than once.
C9_ListsDisjoint ==
    /\ ItemsOf(readList) \cap ItemsOf(unreadList) = {}
    /\ \A i, j \in 1..Len(readList) : i # j => readList[i] # readList[j]

\* Per markAllAsRead call: inbox/fetchInboxSummaryByUser is dispatched at
\* most once, not before all the call's patches have resolved, and once they
\* all have (for a call with an unread item).
C10_SummaryOnce ==
    \A k \in 1..Len(marks) :
        /\ marks[k].summary <= 1
        /\ marks[k].summary = 1 => marks[k].n >= 1 /\ marks[k].resolved = marks[k].n
        /\ (marks[k].n >= 1 /\ marks[k].resolved = marks[k].n) => marks[k].summary = 1

\* What the steps do to the lists: markAllAsRead leaves the unread list empty
\* and dispatches one patch per unread item; a resolving patch appends its
\* item to the read list.
C10_ListSteps ==
    /\ Len(marks') > Len(marks) =>
          /\ unreadList' = << >>
          /\ marks'[Len(marks')].n = Len(unreadList)
          /\ {pt.item : pt \in patches' \ patches} = ItemsOf(unreadList)
    /\ \A pt \in patches :
          (pt.state = "served" /\ pt \notin patches') =>
              /\ readList' = Append(readList, pt.item)
              /\ marks'[pt.mark].resolved = marks[pt.mark].resolved + 1

\* C10: a markAllAsRead call with n >= 1 unread items whose patches all
\* resolve dispatches inbox/fetchInboxSummaryByUser exactly once, after all n
\* have resolved; state.unreadList is empty when the call returns; each item
\* is appended to state.readList when its patch resolves.
C10_MarkAllAsRead ==
    /\ []C10_SummaryOnce
    /\ [][C10_ListSteps]_vars

\* A call with two unread items has had both patches resolve and has
\* dispatched the summary fetch.
C10_Witness ==
    \E k \in 1..Len(marks) :
        /\ marks[k].n = 2
        /\ marks[k].resolved = 2
        /\ marks[k].summary = 1
        /\ unreadList = << >>

====
